---- MODULE Spec2Model ----
(***************************************************************************)
(* A model of YamlConfig (source/config.py): the consolidated tree `maps`, *)
(* the patch registry `patch_list`, the sorted index `patch_locations`,    *)
(* and the operations patch, save, get_section, get_value and set_value.   *)
(*                                                                         *)
(* Python strings are sequences of characters (one-character TLA+ strings, *)
(* the reserved key __INCLUDE__ and each source location being a single    *)
(* symbol), so that split('.'), '.'.join, slicing and string comparison    *)
(* are computed as the code computes them.                                 *)
(* A value of the tree is a record: a dict [kind |-> "dict", items |-> f], *)
(* an int, a str, or None.                                                 *)
(***************************************************************************)
EXTENDS Integers, Sequences, FiniteSets, TLC

VARIABLES maps, patch_list, patch_locations, files, last, edits

vars == <<maps, patch_list, patch_locations, files, last, edits>>

----------------------------------------------------------------------------
(* Bounds of the model *)

\* the registry holds at most this many patches (nested loads included)
MaxPatches == 2
\* set_value is called at most this many times
MaxEdits == 1

----------------------------------------------------------------------------
(* Python values *)

None == [kind |-> "none"]
PyInt(n) == [kind |-> "int", val |-> n]
PyStr(s) == [kind |-> "str", val |-> s]
PyDict(f) == [kind |-> "dict", items |-> f]
EmptyDict == PyDict(<<>>)

IsDict(v) == v.kind = "dict"

\* a dict with one, two entries
D1(k, v) == PyDict([j \in {k} |-> v])
D2(k1, v1, k2, v2) == PyDict([j \in {k1, k2} |-> IF j = k1 THEN v1 ELSE v2])

Min(m, n) == IF m < n THEN m ELSE n

\* s[:n]
Slice(s, n) == SubSeq(s, 1, Min(n, Len(s)))
\* s[n:]
SliceFrom(s, n) == SubSeq(s, n + 1, Len(s))

\* the code point of a character
CharOrd(c) ==
    CASE c = "." -> 46
      [] c = "__INCLUDE__" -> 95
      [] c = "a" -> 97
      [] c = "b" -> 98
      [] c = "p" -> 112
      [] c = "x" -> 120
      [] OTHER -> 122

RECURSIVE StrLess(_, _)
\* s < t on Python strings
StrLess(s, t) ==
    IF t = <<>> THEN FALSE
    ELSE IF s = <<>> THEN TRUE
    ELSE IF Head(s) = Head(t) THEN StrLess(Tail(s), Tail(t))
    ELSE CharOrd(Head(s)) < CharOrd(Head(t))

\* (p, i) < (q, j) on Python tuples
TupleLess(e, f) == StrLess(e[1], f[1]) \/ (e[1] = f[1] /\ e[2] < f[2])

RECURSIVE Split(_)
\* s.split('.')
Split(s) ==
    IF \A i \in 1..Len(s) : s[i] # "." THEN <<s>>
    ELSE LET i == CHOOSE j \in 1..Len(s) : s[j] = "." /\ \A h \in 1..(j - 1) : s[h] # "."
         IN  <<SubSeq(s, 1, i - 1)>> \o Split(SubSeq(s, i + 1, Len(s)))

\* sub in s, on Python strings
IsSubstring(sub, s) ==
    \E i \in 0..(Len(s) - Len(sub)) : SubSeq(s, i + 1, i + Len(sub)) = sub

\* key in x: "yes", "no", or the exception raised
Contains(x, key) ==
    CASE x.kind = "dict" -> IF key \in DOMAIN x.items THEN "yes" ELSE "no"
      [] x.kind = "str" -> IF IsSubstring(key, x.val) THEN "yes" ELSE "no"
      [] OTHER -> "TypeError"

RECURSIVE SortedKeys(_)
\* the keys of a dict, in the order the model iterates over them
SortedKeys(S) ==
    IF S = {} THEN <<>>
    ELSE LET m == CHOOSE k \in S : \A j \in S \ {k} : StrLess(k, j)
         IN  <<m>> \o SortedKeys(S \ {m})

RECURSIVE SetAt(_, _, _)
\* the tree with the node at the end of segs replaced by node
SetAt(tree, segs, node) ==
    IF segs = <<>> THEN node
    ELSE PyDict([tree.items EXCEPT ![Head(segs)] = SetAt(@, Tail(segs), node)])

\* d[key] = v on a dict
SetItem(d, key, v) ==
    PyDict([k \in DOMAIN d.items \cup {key} |-> IF k = key THEN v ELSE d.items[k]])

\* del d[key]
DelItem(d, key) == PyDict([k \in DOMAIN d.items \ {key} |-> d.items[k]])

----------------------------------------------------------------------------
(* dict_merge *)

\* a dict_merge that recurses with current_path as it is
SubPath_Unchanged(current_path, key) == current_path

\* the path dict_merge passes down when it recurses into key
SubPath(current_path, key) ==
    IF current_path = <<>> THEN key ELSE current_path \o <<".">> \o key

RECURSIVE MergeTree(_, _)
\* target after dict_merge(target, source, ...), both dicts
MergeTree(target, source) ==
    PyDict([key \in DOMAIN target.items \cup DOMAIN source.items |->
        IF key \notin DOMAIN source.items THEN target.items[key]
        ELSE IF /\ key \in DOMAIN target.items
                /\ IsDict(target.items[key])
                /\ IsDict(source.items[key])
             THEN MergeTree(target.items[key], source.items[key])
             ELSE source.items[key]])

RECURSIVE MergeChanges(_, _, _, _)
\* what dict_merge appends to changes, for the keys of source listed in keys
MergeChanges(target, source, keys, current_path) ==
    IF keys = <<>> THEN <<>>
    ELSE LET key == Head(keys)
             here == IF /\ key \in DOMAIN target.items
                        /\ IsDict(target.items[key])
                        /\ IsDict(source.items[key])
                     THEN MergeChanges(target.items[key], source.items[key],
                                       SortedKeys(DOMAIN source.items[key].items),
                                       SubPath(current_path, key))
                     ELSE <<current_path>>
         IN  here \o MergeChanges(target, source, Tail(keys), current_path)

\* a dict_merge that puts the source in the place of the target
dict_merge_Replacing(target, source, current_path) ==
    [err |-> "ok", target |-> source, changes |-> <<current_path>>]

\* dict_merge(target, source, changes, current_path) with changes == []:
\* the target afterwards, the changes appended, and the exception raised
dict_merge(target, source, current_path) ==
    IF DOMAIN source.items = {}
    THEN [err |-> "ok", target |-> target, changes |-> <<>>]
    ELSE IF ~IsDict(target)
    THEN [err |-> "TypeError", target |-> target, changes |-> <<>>]
    ELSE [err |-> "ok",
          target |-> MergeTree(target, source),
          changes |-> MergeChanges(target, source,
                                   SortedKeys(DOMAIN source.items), current_path)]

----------------------------------------------------------------------------
(* bisect.insort *)

\* an insort that puts the item first
insort_Front(list, item) == <<item>> \o list

\* insort(list, item): item goes after the entries that are not greater
insort(list, item) ==
    LET n == Cardinality({i \in 1..Len(list) : ~TupleLess(item, list[i])})
    IN  SubSeq(list, 1, n) \o <<item>> \o SubSeq(list, n + 1, Len(list))

RECURSIVE InsortAll(_, _, _)
\* for change in changes: insort(patch_locations, (change, patch_location))
InsortAll(list, changes, patch_location) ==
    IF changes = <<>> THEN list
    ELSE InsortAll(insort(list, <<Head(changes), patch_location>>),
                   Tail(changes), patch_location)

----------------------------------------------------------------------------
(* The host environment: files, package resources, dicts given by callers *)

kA == <<"a">>
kB == <<"b">>
kP == <<"p">>
kX == <<"x">>
INCLUDE == <<"__INCLUDE__">>

\* {a: {b: {x: 0}}}
TreeRoot == D1(kA, D1(kB, D1(kX, PyInt(0))))
\* {a: {b: {p: {x: 0}}}}
TreeSteps == D1(kA, D1(kB, D1(kP, D1(kX, PyInt(0)))))
\* {p: {x: 0}}
TreeParams == D1(kP, D1(kX, PyInt(0)))
\* {a: {x: 0}, b: 0}
TreeTwo == D2(kA, D1(kX, PyInt(0)), kB, PyInt(0))
\* {x: 0}
TreeLeaf == D1(kX, PyInt(0))
\* {a: {b: {}, __INCLUDE__: {b: 'leaf.yaml'}}}
TreeNested == D1(kA, D2(kB, EmptyDict, INCLUDE, D1(kB, PyStr(<<"leaf.yaml">>))))
\* {a: {}, __INCLUDE__: {a: 'leaf.yaml'}}
TreeInclude == D2(kA, EmptyDict, INCLUDE, D1(kA, PyStr(<<"leaf.yaml">>)))
\* {__INCLUDE__: {b: 'leaf.yaml'}}
TreeIncludeOnly == D1(INCLUDE, D1(kB, PyStr(<<"leaf.yaml">>)))

\* {b: 0}
TreeScalar == D1(kB, PyInt(0))

\* the dicts callers pass as patch_dict
DictSources == {TreeRoot, TreeSteps, TreeTwo, TreeLeaf, TreeNested}

\* what a file that yaml cannot scan, and one whose root is a list, hold
ScannerError == [kind |-> "scanner-error"]
PyList == [kind |-> "list"]

\* the files of the host file system when the store is constructed
InitFiles ==
    [n \in {<<"root.yaml">>, <<"leaf.yaml">>, <<"inc.yaml">>, <<"list.yaml">>} |->
        CASE n = <<"root.yaml">> -> TreeRoot
          [] n = <<"leaf.yaml">> -> TreeLeaf
          [] n = <<"inc.yaml">> -> TreeIncludeOnly
          [] OTHER -> PyList]

\* the resources of the packages: (package, resource) -> what it parses to
Resources ==
    [n \in {<<"assets", "config.yaml">>, <<"assets", "leaf.yaml">>,
            <<"assets", "yaml-with-errors.yaml">>} |->
        CASE n = <<"assets", "config.yaml">> -> TreeInclude
          [] n = <<"assets", "leaf.yaml">> -> TreeLeaf
          [] OTHER -> ScannerError]

----------------------------------------------------------------------------
(* load_yaml *)

\* load_yaml(file_name, resource, package) on the file system fs: the
\* exception raised, or "ok" and the map
load_yaml(fs, file_name, resource, package) ==
    LET text ==
            IF file_name # None
            THEN IF file_name.kind # "str" THEN [err |-> "TypeError"]
                 ELSE IF file_name.val \notin DOMAIN fs
                      THEN [err |-> "FileNotFoundError"]
                      ELSE [err |-> "ok", map |-> fs[file_name.val]]
            ELSE IF package = None \/ resource = None THEN [err |-> "TypeError"]
                 ELSE IF package.kind # "str" \/ resource.kind # "str"
                      THEN [err |-> "TypeError"]
                 ELSE IF <<package.val[1], resource.val[1]>> \notin DOMAIN Resources
                      THEN [err |-> "FileNotFoundError"]
                      ELSE [err |-> "ok",
                            map |-> Resources[<<package.val[1], resource.val[1]>>]]
    IN  IF text.err # "ok" THEN text
        ELSE IF text.map = ScannerError
             THEN [err |-> "YcError: load_yaml: yaml scanner error"]
        ELSE IF ~IsDict(text.map)
             THEN [err |-> "YcError: load_yaml: yaml source should map to a dictionary"]
        ELSE text

----------------------------------------------------------------------------
(* YamlConfig.patch *)

RECURSIVE NodeAt(_, _)
\* the node the keys of segs lead to
NodeAt(tree, segs) ==
    IF segs = <<>> THEN tree ELSE NodeAt(tree.items[Head(segs)], Tail(segs))

RECURSIVE BranchWalk(_, _)
\* the walk of patch() from target along the keys of branch:
\* "ok", or the exception raised
BranchWalk(target, segs) ==
    IF segs = <<>> THEN "ok"
    ELSE LET c == Contains(target, Head(segs))
         IN  IF c = "TypeError" THEN "TypeError"
             ELSE IF c = "no" THEN "YcError: Cannot locate branch"
             ELSE IF ~IsDict(target) THEN "TypeError"
             ELSE BranchWalk(target.items[Head(segs)], Tail(segs))

\* the entry patch() appends to patch_list
PatchEntry(file_name, resource, package, patch_dict, branch, the_patch) ==
    [type |-> IF patch_dict # None THEN "dict"
              ELSE IF file_name # None THEN "file" ELSE "resource",
     file_name |-> IF patch_dict = None THEN file_name ELSE None,
     resource |-> IF patch_dict = None /\ file_name = None THEN resource ELSE None,
     package |-> IF patch_dict = None /\ file_name = None THEN package ELSE None,
     branch |-> branch,
     changed |-> FALSE,
     patch |-> the_patch]

\* the branch of the nested load of an __INCLUDE__ entry
NestedBranch(file_name, branch, sub_branch) ==
    IF file_name # None
    THEN branch \o <<".">> \o sub_branch
    ELSE (IF branch # <<>> THEN branch \o <<".">> ELSE <<>>) \o sub_branch

RECURSIVE patch(_, _, _, _, _, _, _)
RECURSIVE IncludeLoop(_, _, _, _, _, _, _)

\* the loop of patch() over includes.items(), from the store st on
IncludeLoop(st, fs, includes, subs, file_name, package, branch) ==
    IF subs = <<>> \/ st.err # "ok" THEN st
    ELSE LET sub_branch == Head(subs)
             location == includes.items[sub_branch]
             nested == PyStr(NestedBranch(file_name, branch, sub_branch))
             after == IF file_name # None
                      THEN patch(st, fs, location, None, None, None, nested)
                      ELSE patch(st, fs, None, location, package, None, nested)
         IN  IncludeLoop(after, fs, includes, Tail(subs), file_name, package, branch)

\* self.patch(file_name, resource, package, patch_dict, branch) on the store
\* st == [maps, patch_list, patch_locations]: the store afterwards and, in
\* err, the exception that left it so
patch(st, fs, file_name, resource, package, patch_dict, branch_arg) ==
    LET segs == IF branch_arg # None THEN Split(branch_arg.val) ELSE <<>>
        branch == IF branch_arg # None THEN branch_arg.val ELSE <<>>
        walk == BranchWalk(st.maps, segs)
    IN  IF walk # "ok" THEN [st EXCEPT !.err = walk]
        ELSE
        LET target == NodeAt(st.maps, segs)
            patch_location == Len(st.patch_list)
            loaded == IF patch_dict # None THEN [err |-> "ok", map |-> patch_dict]
                      ELSE load_yaml(fs, file_name, resource, package)
        IN  IF loaded.err # "ok" THEN [st EXCEPT !.err = loaded.err]
            ELSE
            LET the_patch == loaded.map
                listed == Append(st.patch_list,
                                 PatchEntry(file_name, resource, package, patch_dict,
                                            branch, the_patch))
                merged == dict_merge(target, the_patch, branch)
            IN  IF merged.err # "ok"
                THEN [st EXCEPT !.patch_list = listed, !.err = merged.err]
                ELSE
                LET located == InsortAll(st.patch_locations, merged.changes,
                                         patch_location)
                    has == Contains(merged.target, INCLUDE)
                    st1 == [maps |-> SetAt(st.maps, segs, merged.target),
                            patch_list |-> listed,
                            patch_locations |-> located,
                            err |-> "ok"]
                IN  IF has = "TypeError" THEN [st1 EXCEPT !.err = "TypeError"]
                    ELSE IF has = "no" THEN st1
                    ELSE IF ~IsDict(merged.target) THEN [st1 EXCEPT !.err = "TypeError"]
                    ELSE
                    LET includes == merged.target.items[INCLUDE]
                        st2 == [st1 EXCEPT !.maps =
                                   SetAt(st.maps, segs, DelItem(merged.target, INCLUDE))]
                    IN  IF ~IsDict(includes)
                        THEN [st2 EXCEPT !.err = "AttributeError"]
                        ELSE IncludeLoop(st2, fs, includes,
                                         SortedKeys(DOMAIN includes.items),
                                         file_name, package, branch)

\* the store of __init__ before its first patch()
EmptyStore == [maps |-> EmptyDict, patch_list |-> <<>>, patch_locations |-> <<>>,
               err |-> "ok"]

\* YamlConfig(file_name, resource, package, patch_dict)
Construct(fs, file_name, resource, package, patch_dict) ==
    IF patch_dict # None
    THEN patch(EmptyStore, fs, None, None, None, patch_dict, None)
    ELSE IF file_name # None
    THEN patch(EmptyStore, fs, file_name, None, None, None, None)
    ELSE patch(EmptyStore, fs, None,
               IF resource = None THEN PyStr(<<"config.yaml">>) ELSE resource,
               IF package = None THEN PyStr(<<"assets">>) ELSE package,
               None, None)

----------------------------------------------------------------------------
(* YamlConfig.get_section, YamlConfig.get_value *)

RECURSIVE SectionWalk(_, _)
\* the loop of get_section from found along the names of segs:
\* the exception raised, or "ok" and what found ends as
SectionWalk(found, segs) ==
    IF segs = <<>> THEN [err |-> "ok", ret |-> found]
    ELSE LET c == Contains(found, Head(segs))
         IN  IF c = "TypeError" THEN [err |-> "TypeError"]
             ELSE IF c = "no" THEN [err |-> "ok", ret |-> None]
             ELSE IF ~IsDict(found) THEN [err |-> "TypeError"]
             ELSE SectionWalk(found.items[Head(segs)], Tail(segs))

\* self.get_section(path, must_exist) on the tree
get_section(tree, path, must_exist) ==
    LET walked == SectionWalk(tree, Split(path))
    IN  IF walked.err # "ok" THEN walked
        ELSE IF must_exist /\ (walked.ret = None \/ ~IsDict(walked.ret))
             THEN [err |-> "YcError: YamlConfig.get_section, path not found or not a dict"]
             ELSE walked

\* self.get_value(path, key, default) on the tree
get_value(tree, path, key, default) ==
    LET branch == get_section(tree, path, FALSE)
    IN  IF branch.err # "ok" THEN branch
        ELSE IF branch.ret = None THEN [err |-> "ok", ret |-> default]
        ELSE LET c == Contains(branch.ret, key)
             IN  IF c = "TypeError" THEN [err |-> "TypeError"]
                 ELSE IF c = "no" THEN [err |-> "ok", ret |-> default]
                 ELSE IF ~IsDict(branch.ret) THEN [err |-> "TypeError"]
                 ELSE [err |-> "ok", ret |-> branch.ret.items[key]]

----------------------------------------------------------------------------
(* YamlConfig.set_value *)

\* pair[0] == path[:len(pair[0])]
PairMatches(pair, path) == pair[1] = Slice(path, Len(pair[1]))

\* loc after the scan of reversed(self.patch_locations) and the line after it
ScanLoc(locations, path) ==
    LET n == Len(locations)
        hits == {r \in 0..(n - 1) : PairMatches(locations[n - r], path)}
        loc == IF hits # {} THEN CHOOSE r \in hits : \A h \in hits : r <= h
               ELSE IF n > 0 THEN n - 1
               ELSE n + 1
    IN  n - loc - 1

RECURSIVE TraceWalk(_, _)
\* the walk of set_value through the patch along the nodes of segs:
\* the exception raised, or "ok" and the keys followed
TraceWalk(patch_node, segs) ==
    IF segs = <<>> THEN "ok"
    ELSE LET c == Contains(patch_node, Head(segs))
         IN  IF c = "TypeError" THEN "TypeError"
             ELSE IF c = "no" THEN "YcError: YamlConfig.get_patch, unable to trace path"
             ELSE IF ~IsDict(patch_node) THEN "TypeError"
             ELSE TraceWalk(patch_node.items[Head(segs)], Tail(segs))

\* set_value forgetting to flag the patch it edits
MarkChanged_Forgotten(entry) == entry

\* patch['changed'] = True
MarkChanged(entry) == [entry EXCEPT !.changed = TRUE]

\* self.set_value(path, key, value) on the store st: the store afterwards,
\* the exception raised and the value returned
set_value(st, path, key, value) ==
    LET raise(e) == [maps |-> st.maps, patch_list |-> st.patch_list, err |-> e]
        n == Len(st.patch_locations)
        loc == ScanLoc(st.patch_locations, path)
    IN  IF IsDict(value)
        THEN raise("YcError: YamlConfig.setValue, replacement value may not be a dict")
        ELSE IF loc # 0 /\ (loc < -n \/ loc >= n) THEN raise("IndexError")
        ELSE IF loc # 0 /\ st.patch_locations[loc + 1][1] # path
        THEN raise("YcError: YamlConfig.get_patch, patch for path not found")
        ELSE IF n = 0 THEN raise("IndexError")
        ELSE
        LET index == st.patch_locations[loc + 1][2]
            entry == st.patch_list[index + 1]
            prefix == entry.branch
        IN  IF Len(path) < Len(prefix) \/ Slice(path, Len(prefix)) # prefix
            THEN raise("YcError: YamlConfig.get_patch, branch prefix is not a prefix to path")
            ELSE
            LET segs == IF Len(path) > Len(prefix)
                        THEN Split(SliceFrom(path, Len(prefix)))
                        ELSE <<>>
                traced == TraceWalk(entry.patch, segs)
            IN  IF traced # "ok" THEN raise(traced)
                ELSE IF ~IsDict(NodeAt(entry.patch, segs)) THEN raise("TypeError")
                ELSE
                LET patch_node == NodeAt(entry.patch, segs)
                    edited == [MarkChanged(entry) EXCEPT !.patch =
                                  SetAt(entry.patch, segs, SetItem(patch_node, key, value))]
                    listed == [st.patch_list EXCEPT ![index + 1] = edited]
                    section == get_section(st.maps, path, TRUE)
                IN  IF section.err # "ok"
                    THEN [maps |-> st.maps, patch_list |-> listed, err |-> section.err]
                    ELSE IF key \notin DOMAIN section.ret.items
                    THEN [maps |-> st.maps, patch_list |-> listed, err |-> "KeyError"]
                    ELSE [maps |-> SetAt(st.maps, Split(path),
                                         SetItem(section.ret, key, value)),
                          patch_list |-> listed,
                          err |-> "ok",
                          ret |-> <<section.ret.items[key], entry.type = "file">>]

----------------------------------------------------------------------------
(* YamlConfig.save *)

\* a save() that takes a file patch for clean once it is changed
SaveResult_Clean(entry, written, error) ==
    [type |-> entry.type, branch |-> entry.branch, changed |-> FALSE,
     saved |-> FALSE]

\* what save() appends to results for one patch; written says whether the
\* with-block of a changed file patch ended without an exception
SaveResult(entry, written, error) ==
    IF entry.type = "dict"
    THEN [type |-> "dict", branch |-> entry.branch, changed |-> entry.changed,
          saved |-> FALSE]
    ELSE IF entry.type = "resource"
    THEN [type |-> "resource", branch |-> entry.branch, resource |-> entry.resource,
          package |-> entry.package, changed |-> entry.changed, saved |-> FALSE]
    ELSE IF ~entry.changed
    THEN [type |-> "file", branch |-> entry.branch, file_name |-> entry.file_name,
          changed |-> entry.changed, saved |-> FALSE]
    ELSE IF written
    THEN [type |-> "file", branch |-> entry.branch, file_name |-> entry.file_name,
          changed |-> entry.changed, saved |-> TRUE]
    ELSE [type |-> "file", branch |-> entry.branch, file_name |-> entry.file_name,
          changed |-> entry.changed, saved |-> FALSE, error |-> error]

\* open(file_name, 'w') and yaml.dump for patch number i: the exception, or "ok"
WriteOutcome(file_name, failing, i) ==
    IF file_name = None THEN "TypeError"
    ELSE IF i \in failing THEN "OSError"
    ELSE "ok"

\* whether the loop of save() writes patch number i
Writes(entries, file_name, failing, i) ==
    /\ entries[i].type = "file"
    /\ entries[i].changed
    /\ WriteOutcome(file_name, failing, i) = "ok"

\* save() without its try/except: the first failed write ends the loop
save_Aborting(entries, all_to_root, file_name, failing) ==
    LET bad == {i \in 1..Len(entries) :
                    /\ entries[i].type = "file"
                    /\ entries[i].changed
                    /\ WriteOutcome(file_name, failing, i) # "ok"}
        n == IF bad = {} THEN Len(entries)
             ELSE (CHOOSE i \in bad : \A j \in bad : i <= j) - 1
    IN  [i \in 1..n |-> SaveResult(entries[i], TRUE, "ok")]

\* self.save(all_to_root, file_name) where the writes of the patches numbered
\* in failing fail: the list returned
save(entries, all_to_root, file_name, failing) ==
    [i \in 1..Len(entries) |->
        SaveResult(entries[i],
                   WriteOutcome(file_name, failing, i) = "ok",
                   WriteOutcome(file_name, failing, i))]

\* the file system after self.save(all_to_root, file_name)
SavedFiles(fs, entries, all_to_root, file_name, failing) ==
    LET wrote == {i \in 1..Len(entries) : Writes(entries, file_name, failing, i)}
    IN  IF wrote = {} THEN fs
        ELSE LET final == CHOOSE i \in wrote : \A j \in wrote : j <= i
             IN  [n \in DOMAIN fs \cup {file_name.val} |->
                    IF n = file_name.val THEN entries[final].patch ELSE fs[n]]

----------------------------------------------------------------------------
(* The arguments callers pass *)

PathRoot == <<>>
PathA == kA
PathAB == kA \o <<".">> \o kB
PathABP == kA \o <<".">> \o kB \o <<".">> \o kP
PathABX == kA \o <<".">> \o kB \o <<".">> \o kX

DictArgs(d) == [file_name |-> None, resource |-> None, package |-> None, patch_dict |-> d]
FileArgs(f) ==
    [file_name |-> PyStr(f), resource |-> None, package |-> None, patch_dict |-> None]
ResourceArgs(r, p) ==
    [file_name |-> None, resource |-> r, package |-> p, patch_dict |-> None]

\* the ways a store is constructed
ConstructArgs ==
    {DictArgs(d) : d \in DictSources}
    \cup {FileArgs(f) : f \in DOMAIN InitFiles}
    \cup {ResourceArgs(None, None),
          ResourceArgs(PyStr(<<"yaml-with-errors.yaml">>), PyStr(<<"assets">>))}

\* the later calls of patch()
PatchCalls ==
    {[args |-> DictArgs(TreeParams), branch |-> PyStr(PathAB)],
     [args |-> DictArgs(TreeRoot), branch |-> None],
     [args |-> DictArgs(TreeLeaf), branch |-> PyStr(PathRoot)],
     [args |-> DictArgs(TreeScalar), branch |-> PyStr(PathA)],
     [args |-> FileArgs(<<"inc.yaml">>), branch |-> PyStr(PathA)],
     [args |-> FileArgs(<<"inc.yaml">>), branch |-> None],
     [args |-> FileArgs(<<"leaf.yaml">>), branch |-> PyStr(PathAB)],
     [args |-> FileArgs(<<"list.yaml">>), branch |-> None]}

\* the calls of set_value()
SetValueCalls ==
    {[path |-> PathRoot, key |-> kX, value |-> PyInt(1)],
     [path |-> PathA, key |-> kX, value |-> PyInt(1)],
     [path |-> PathA, key |-> kB, value |-> PyInt(1)],
     [path |-> PathAB, key |-> kX, value |-> PyInt(1)],
     [path |-> PathABP, key |-> kX, value |-> PyInt(1)],
     [path |-> PathAB, key |-> kX, value |-> EmptyDict]}

\* the sections and values read
Paths == {PathRoot, PathAB, PathABP, PathABX}
Keys == {kX}
Defaults == {None}
SinkNames == {None, PyStr(<<"out.yaml">>)}

Store == [maps |-> maps, patch_list |-> patch_list,
          patch_locations |-> patch_locations, err |-> "ok"]

----------------------------------------------------------------------------
(* The store as a state machine *)

Init ==
    \E c \in ConstructArgs :
        LET made == Construct(InitFiles, c.file_name, c.resource, c.package,
                              c.patch_dict)
        IN  /\ made.err = "ok"
            /\ maps = made.maps
            /\ patch_list = made.patch_list
            /\ patch_locations = made.patch_locations
            /\ files = InitFiles
            /\ edits = 0
            /\ last = [op |-> "__init__", args |-> c, err |-> "ok"]

\* conf.patch(file_name, resource, package, patch_dict, branch)
Patch ==
    \E c \in PatchCalls :
        LET after == patch(Store, files, c.args.file_name, c.args.resource,
                           c.args.package, c.args.patch_dict, c.branch)
        IN  /\ Len(after.patch_list) <= MaxPatches
            /\ maps' = after.maps
            /\ patch_list' = after.patch_list
            /\ patch_locations' = after.patch_locations
            /\ last' = [op |-> "patch", args |-> c.args, branch |-> c.branch,
                        err |-> after.err]
            /\ UNCHANGED <<files, edits>>

\* conf.set_value(path, key, value)
SetValue ==
    \E c \in SetValueCalls :
        LET path == c.path
            key == c.key
            value == c.value
            after == set_value(Store, path, key, value)
        IN  /\ edits < MaxEdits
            /\ edits' = edits + 1
            /\ maps' = after.maps
            /\ patch_list' = after.patch_list
            /\ last' = IF after.err = "ok"
                       THEN [op |-> "set_value", path |-> path, key |-> key,
                             value |-> value, err |-> "ok", ret |-> after.ret]
                       ELSE [op |-> "set_value", path |-> path, key |-> key,
                             value |-> value, err |-> after.err]
            /\ UNCHANGED <<patch_locations, files>>

\* conf.save(all_to_root, file_name); the environment decides which writes fail
Save ==
    \E all_to_root \in BOOLEAN, file_name \in SinkNames,
       failing \in SUBSET {i \in 1..Len(patch_list) :
                              patch_list[i].type = "file" /\ patch_list[i].changed} :
        /\ files' = SavedFiles(files, patch_list, all_to_root, file_name, failing)
        /\ last' = [op |-> "save", all_to_root |-> all_to_root, file_name |-> file_name,
                    failing |-> failing, err |-> "ok",
                    ret |-> save(patch_list, all_to_root, file_name, failing)]
        /\ UNCHANGED <<maps, patch_list, patch_locations, edits>>

\* conf.get_section(path, must_exist)
GetSection ==
    \E path \in Paths, must_exist \in BOOLEAN :
        LET got == get_section(maps, path, must_exist)
        IN  /\ last' = IF got.err = "ok"
                       THEN [op |-> "get_section", path |-> path,
                             must_exist |-> must_exist, err |-> "ok", ret |-> got.ret]
                       ELSE [op |-> "get_section", path |-> path,
                             must_exist |-> must_exist, err |-> got.err]
            /\ UNCHANGED <<maps, patch_list, patch_locations, files, edits>>

\* conf.get_value(path, key, default)
GetValue ==
    \E path \in Paths, key \in Keys, default \in Defaults :
        LET got == get_value(maps, path, key, default)
        IN  /\ last' = IF got.err = "ok"
                       THEN [op |-> "get_value", path |-> path, key |-> key,
                             default |-> default, err |-> "ok", ret |-> got.ret]
                       ELSE [op |-> "get_value", path |-> path, key |-> key,
                             default |-> default, err |-> got.err]
            /\ UNCHANGED <<maps, patch_list, patch_locations, files, edits>>

Next == Patch \/ SetValue \/ Save \/ GetSection \/ GetValue

Spec == Init /\ [][Next]_vars

----------------------------------------------------------------------------
(* What the claims speak of *)

RECURSIVE Leaves(_, _)
\* the leaves of a tree: <<keys from the root, value>> for each value that is
\* no dict
Leaves(tree, segs) ==
    IF ~IsDict(tree) THEN {<<segs, tree>>}
    ELSE UNION {Leaves(tree.items[k], Append(segs, k)) : k \in DOMAIN tree.items}

\* the keys of a branch path; the empty path is the root
BranchSegs(branch) == IF branch = <<>> THEN <<>> ELSE Split(branch)

RECURSIVE Lookup(_, _)
\* the node the keys lead to, None where a key is missing
Lookup(tree, segs) ==
    IF segs = <<>> THEN tree
    ELSE IF ~IsDict(tree) \/ Head(segs) \notin DOMAIN tree.items THEN None
    ELSE Lookup(tree.items[Head(segs)], Tail(segs))

\* the patch holds the leaf: its branch leads towards the leaf and its content,
\* followed along the rest of the leaf's path, holds the leaf's value
Holds(entry, leaf) ==
    LET b == BranchSegs(entry.branch)
    IN  /\ Len(b) <= Len(leaf[1])
        /\ SubSeq(leaf[1], 1, Len(b)) = b
        /\ Lookup(entry.patch, SubSeq(leaf[1], Len(b) + 1, Len(leaf[1]))) = leaf[2]

RECURSIVE HasInclude(_)
\* an __INCLUDE__ key at some depth of the tree
HasInclude(tree) ==
    /\ IsDict(tree)
    /\ \/ INCLUDE \in DOMAIN tree.items
       \/ \E k \in DOMAIN tree.items : HasInclude(tree.items[k])

RECURSIVE Replay(_, _, _)
\* the patches from number i on merged, each at its branch, into tree, with the
\* __INCLUDE__ key patch() consumes taken from the node merged into; None
\* when a branch is no mapping of the tree
Replay(tree, entries, i) ==
    IF i > Len(entries) THEN tree
    ELSE LET segs == BranchSegs(entries[i].branch)
             node == Lookup(tree, segs)
         IN  IF ~IsDict(node) THEN None
             ELSE LET merged == MergeTree(node, entries[i].patch)
                      kept == IF INCLUDE \in DOMAIN merged.items
                              THEN DelItem(merged, INCLUDE) ELSE merged
                  IN  Replay(SetAt(tree, segs, kept), entries, i + 1)

NotFound == "YcError: YamlConfig.get_patch, patch for path not found"

\* the patch (numbered from 1) the scan of set_value selects for path
Owner(locations, path) == locations[ScanLoc(locations, path) + 1][2] + 1

\* result number i of save() tells of an attempt to write
Attempted(result) == result.saved \/ "error" \in DOMAIN result

----------------------------------------------------------------------------
(* The claims *)

\* C1: after every patch() and set_value() call, every leaf value of the
\* consolidated tree is held by a registered patch whose branch is a prefix of
\* the leaf's path and whose content, navigated by the rest of the path, has
\* that same value. (The claim says by exactly one patch; that some patch holds
\* the leaf is the part stated here, and the code breaks already that.)
C1_EveryLeafTraceable ==
    \A leaf \in Leaves(maps, <<>>) :
        \E i \in 1..Len(patch_list) : Holds(patch_list[i], leaf)

\* C2: the consolidated tree equals the merge, into an empty tree, of the
\* current content of all registered patches in load order, each at its branch.
C2_TreeIsMergeOfPatches == maps = Replay(EmptyDict, patch_list, 1)

\* C3: with a patch at the root "" and a second patch at "a.b" (steps.load)
\* holding p.x (parameters.x), set_value("a.b.p", "x", 1) succeeds and updates
\* the content and the dirty flag of the second patch, leaving the root patch
\* as it was.
C3_ResolvesToBranchPatch ==
    [][(/\ Len(patch_list) = 2
        /\ patch_list[1].branch = PathRoot
        /\ patch_list[2].branch = PathAB
        /\ Lookup(patch_list[2].patch, <<kP, kX>>) # None
        /\ Lookup(maps, <<kA, kB, kP, kX>>) # None
        /\ last'.op = "set_value"
        /\ last'.path = PathABP /\ last'.key = kX /\ last'.value = PyInt(1))
       => (/\ last'.err = "ok"
           /\ patch_list'[2].changed
           /\ Lookup(patch_list'[2].patch, <<kP, kX>>) = PyInt(1)
           /\ patch_list'[1] = patch_list[1])]_vars

\* C4: set_value fails with "patch for path not found" only when no entry of
\* the patch index has a path that is a prefix of the path given.
C4_NotFoundOnlyWithoutPrefix ==
    (last.op = "set_value" /\ last.err = NotFound)
        => \A i \in 1..Len(patch_locations) : ~PairMatches(patch_locations[i], last.path)

\* C5: in a store just constructed from a single dict, for a path that
\* resolves to a mapping and a key of it holding a value old that is no
\* mapping, set_value(path, key, new) with new no mapping returns (old, false)
\* and get_value(path, key) then returns new.
C5_SetThenGet ==
    [][(/\ Len(patch_list) = 1
        /\ patch_list[1].type = "dict"
        /\ edits = 0
        /\ last'.op = "set_value"
        /\ ~IsDict(last'.value)
        /\ get_section(maps, last'.path, TRUE).err = "ok"
        /\ Contains(get_section(maps, last'.path, TRUE).ret, last'.key) = "yes"
        /\ ~IsDict(get_section(maps, last'.path, TRUE).ret.items[last'.key]))
       => (/\ last'.err = "ok"
           /\ last'.ret = <<get_section(maps, last'.path, TRUE).ret.items[last'.key], FALSE>>
           /\ get_value(maps', last'.path, last'.key, None)
                = [err |-> "ok", ret |-> last'.value])]_vars

\* C6 as claimed: save() reports every file patch unsaved and unchanged while
\* no set_value has been called, and after a successful set_value of a key
\* under the branch of a file patch the next save() reports that patch as
\* attempted, with changed = true.
C6_AnyFilePatchUnderPath ==
    [][(last'.op = "save")
       => \A i \in 1..Len(patch_list) :
            patch_list[i].type = "file"
            => /\ edits = 0
                  => (~last'.ret[i].saved /\ ~last'.ret[i].changed)
               /\ (/\ last.op = "set_value" /\ last.err = "ok"
                   /\ PairMatches(<<patch_list[i].branch, i>>, last.path))
                  => (last'.ret[i].changed /\ Attempted(last'.ret[i]))]_vars

\* C6 as amended: save() reports every file patch unsaved and unchanged while
\* no set_value has been called, and after a successful set_value whose owning
\* patch (the one its scan of the index selects) is a file patch the next
\* save() reports that patch as attempted, with changed = true.
C6_OwningFilePatch ==
    [][(last'.op = "save")
       => \A i \in 1..Len(patch_list) :
            patch_list[i].type = "file"
            => /\ edits = 0
                  => (~last'.ret[i].saved /\ ~last'.ret[i].changed)
               /\ (/\ last.op = "set_value" /\ last.err = "ok"
                   /\ i = Owner(patch_locations, last.path))
                  => (last'.ret[i].changed /\ Attempted(last'.ret[i]))]_vars

\* C6 witness: a save() right after nothing but loads, and one reporting a
\* changed file patch as attempted
C6_Witness ==
    /\ last.op = "save"
    /\ \E i \in 1..Len(patch_list) :
        /\ patch_list[i].type = "file"
        /\ last.ret[i].changed
        /\ Attempted(last.ret[i])

\* C7: save() with all_to_root unset and no file name writes the content of
\* every changed file patch, unless the environment fails the write, to the
\* file the patch came from and reports it saved.
C7_SavesToOriginFile ==
    [][(last'.op = "save" /\ ~last'.all_to_root /\ last'.file_name = None)
       => \A i \in 1..Len(patch_list) :
            (/\ patch_list[i].type = "file"
             /\ patch_list[i].changed
             /\ i \notin last'.failing)
            => /\ last'.ret[i].saved
               /\ files'[patch_list[i].file_name.val] = patch_list[i].patch]_vars

\* C8: save() raises nothing and returns one result per registered patch, in
\* load order: a dict or resource patch and an unchanged file patch are not
\* saved; a changed file patch whose write fails is not saved and carries the
\* error, and the patches after it are still reported.
C8_SaveReportsEveryPatch ==
    (last.op = "save")
    => /\ last.err = "ok"
       /\ Len(last.ret) = Len(patch_list)
       /\ \A i \in 1..Len(patch_list) :
            LET entry == patch_list[i]
                result == last.ret[i]
                failed == last.file_name = None \/ i \in last.failing
            IN  /\ result.type = entry.type
                /\ result.branch = entry.branch
                /\ result.changed = entry.changed
                /\ entry.type \in {"dict", "resource"} => ~result.saved
                /\ (entry.type = "file" /\ ~entry.changed) => ~result.saved
                /\ (entry.type = "file" /\ entry.changed /\ failed)
                      => (~result.saved /\ "error" \in DOMAIN result)
                /\ (entry.type = "file" /\ entry.changed /\ ~failed) => result.saved

\* C8 witness: a save() whose first patch is a changed file patch with a failed
\* write, followed by another patch
C8_Witness ==
    /\ last.op = "save"
    /\ Len(patch_list) >= 2
    /\ Len(last.ret) = Len(patch_list)
    /\ "error" \in DOMAIN last.ret[1]

\* C9: after a patch() call that completes (construction included) no
\* __INCLUDE__ key remains at any depth of the consolidated tree.
C9_NoIncludeKeyRemains ==
    (last.op \in {"__init__", "patch"} /\ last.err = "ok") => ~HasInclude(maps)

\* C10: get_value(path, key, default) never fails: it returns the stored value
\* when path resolves to a mapping that contains key and default otherwise.
C10_GetValueNeverFails ==
    (last.op = "get_value")
    => /\ last.err = "ok"
       /\ last.ret = IF /\ IsDict(Lookup(maps, Split(last.path)))
                        /\ last.key \in DOMAIN Lookup(maps, Split(last.path)).items
                     THEN Lookup(maps, Split(last.path)).items[last.key]
                     ELSE last.default

SectionNotFound == "YcError: YamlConfig.get_section, path not found or not a dict"

\* C11: get_section(path, must_exist = true) fails with YcError exactly when
\* path does not resolve to a mapping of the consolidated tree and otherwise
\* returns that mapping; with must_exist = false it never fails and returns
\* the node reached, or None when a segment is missing.
C11_GetSectionFailsExactly ==
    (last.op = "get_section")
    => LET node == Lookup(maps, Split(last.path))
       IN  IF last.must_exist /\ ~IsDict(node)
           THEN last.err = SectionNotFound
           ELSE last.err = "ok" /\ last.ret = node

\* the trees merged as source
MergeSources == DictSources \cup {TreeParams, EmptyDict}

\* C12: once a source tree has been merged into a target tree, merging the same
\* source a second time reports no changed path: the change list of the second
\* dict_merge is empty. The targets are the consolidated trees the store
\* reaches.
C12_SecondMergeReportsNothing ==
    \A source \in MergeSources :
        LET once == dict_merge(maps, source, <<>>)
        IN  once.err = "ok"
            => dict_merge(once.target, source, <<>>).changes = <<>>

\* two dict patches loaded at the root, neither edited since
TwoRootDicts ==
    /\ Len(patch_list) = 2
    /\ \A i \in 1..2 : /\ patch_list[i].type = "dict"
                       /\ patch_list[i].branch = <<>>
                       /\ ~patch_list[i].changed

\* C13: merging P1 and then P2 into an empty tree gives the tree that a single
\* merge, into an empty tree, of P2 deep-merged into P1 gives: for the tree of
\* a store built from dict P1 and patched at the root with dict P2, and for
\* every reachable tree as P1 with every source tree as P2.
C13_TwoMergesAsOne ==
    /\ TwoRootDicts
        => maps = dict_merge(EmptyDict,
                             MergeTree(patch_list[1].patch, patch_list[2].patch),
                             <<>>).target
    /\ \A P2 \in MergeSources :
            dict_merge(dict_merge(EmptyDict, maps, <<>>).target, P2, <<>>).target
                = dict_merge(EmptyDict, MergeTree(maps, P2), <<>>).target

\* C13 witness: two dict patches at the root whose merge is neither of them
C13_Witness ==
    /\ TwoRootDicts
    /\ maps # patch_list[1].patch
    /\ maps # patch_list[2].patch

RECURSIVE Mappings(_, _)
\* the key sequences that lead to a mapping of the tree, the root included
Mappings(tree, segs) ==
    IF ~IsDict(tree) THEN {}
    ELSE {segs} \cup UNION {Mappings(tree.items[k], Append(segs, k)) :
                                k \in DOMAIN tree.items}

\* C14: a patch() call that completes never replaces a mapping already
\* present: every path that held a mapping before the call holds a mapping
\* after it, with at least the keys it had.
C14_MappingsSurvivePatch ==
    [][(last'.op = "patch" /\ last'.err = "ok")
       => \A segs \in Mappings(maps, <<>>) :
            /\ IsDict(Lookup(maps', segs))
            /\ DOMAIN Lookup(maps, segs).items
                    \subseteq DOMAIN Lookup(maps', segs).items]_vars

RECURSIVE Overwritten(_, _, _)
\* the keys a merge of source into target sets: <<keys of the mappings
\* descended through, key>> for each key of source that is not a mapping on
\* both sides
Overwritten(target, source, segs) ==
    UNION {IF /\ k \in DOMAIN target.items
              /\ IsDict(target.items[k])
              /\ IsDict(source.items[k])
           THEN Overwritten(target.items[k], source.items[k], Append(segs, k))
           ELSE {<<segs, k>>} : k \in DOMAIN source.items}

RECURSIVE Dotted(_)
\* '.'.join(segs)
Dotted(segs) ==
    IF segs = <<>> THEN <<>>
    ELSE IF Len(segs) = 1 THEN Head(segs)
    ELSE Head(segs) \o <<".">> \o Dotted(Tail(segs))

\* the path of the mapping reached from prefix through the keys of segs
PathUnder(prefix, segs) ==
    IF segs = <<>> THEN prefix
    ELSE IF prefix = <<>> THEN Dotted(segs)
    ELSE prefix \o <<".">> \o Dotted(segs)

\* the prefixes given to dict_merge
Prefixes == {PathRoot, PathA}

\* C15 as claimed: dict_merge recurses with the prefix unchanged, so every
\* changed path it reports equals the prefix given to the top-level call, one
\* record per overwritten key, and an empty source reports no changes.
C15_ChangesArePrefixOnly ==
    \A source \in MergeSources, prefix \in Prefixes :
        LET merged == dict_merge(maps, source, prefix)
        IN  /\ merged.err = "ok"
            /\ Len(merged.changes) = Cardinality(Overwritten(maps, source, <<>>))
            /\ \A i \in 1..Len(merged.changes) : merged.changes[i] = prefix

\* C15 as amended: dict_merge recurses with the prefix extended by the key, so
\* every changed path it reports is the path of the mapping in which a key was
\* set (the prefix followed by the keys descended through, without the key
\* set), one record per overwritten key, and an empty source reports no
\* changes.
C15_ChangesAreMappingPaths ==
    \A source \in MergeSources, prefix \in Prefixes :
        LET merged == dict_merge(maps, source, prefix)
            set == Overwritten(maps, source, <<>>)
            paths == {PathUnder(prefix, o[1]) : o \in set}
        IN  /\ merged.err = "ok"
            /\ Len(merged.changes) = Cardinality(set)
            /\ \A i \in 1..Len(merged.changes) : merged.changes[i] \in paths
            /\ \A q \in paths :
                    Cardinality({i \in 1..Len(merged.changes) : merged.changes[i] = q})
                        = Cardinality({o \in set : PathUnder(prefix, o[1]) = q})
            /\ source = EmptyDict => merged.changes = <<>>

\* C15 witness: a patch whose merge descended into a mapping: the index holds
\* an entry for it with a path longer than its branch
C15_Witness ==
    \E i \in 1..Len(patch_locations) :
        LET e == patch_locations[i]
        IN  /\ e[1] # patch_list[e[2] + 1].branch
            /\ patch_list[e[2] + 1].type = "dict"

\* the nested branch the claim gives for the entry sub_branch of an
\* __INCLUDE__ found by a patch() at branch
ClaimedNestedBranch(branch, sub_branch) ==
    IF branch = <<>> THEN sub_branch ELSE branch \o <<".">> \o sub_branch

\* C16: for every entry sub_branch -> location of an __INCLUDE__ found at the
\* node a patch() of a file or a resource merged into, at a branch that holds
\* sub_branch, the registry gains exactly one patch loaded from location at
\* branch + '.' + sub_branch, or at sub_branch when branch is empty.
C16_NestedLoadPerInclude ==
    [][(last'.op = "patch" /\ last'.args.patch_dict = None)
       => LET args == last'.args
              branch == IF last'.branch = None THEN <<>> ELSE last'.branch.val
              segs == BranchSegs(branch)
              loaded == load_yaml(files, args.file_name, args.resource, args.package)
              target == Lookup(maps, segs)
              includes == Lookup(MergeTree(target, loaded.map), <<INCLUDE>>)
              added == (Len(patch_list) + 2)..Len(patch_list')
          IN  (/\ IsDict(target)
               /\ loaded.err = "ok"
               /\ IsDict(includes))
              => \A sub_branch \in DOMAIN includes.items :
                    sub_branch \in DOMAIN target.items
                    => Cardinality({j \in added :
                          /\ patch_list'[j].branch
                                = ClaimedNestedBranch(branch, sub_branch)
                          /\ includes.items[sub_branch]
                                \in {patch_list'[j].file_name, patch_list'[j].resource}})
                       = 1]_vars

\* C17: the empty path "" denotes the root in every operation: get_section("")
\* returns the root mapping, patch(patch_dict, branch = "") merges at the root,
\* and set_value("", key, value) on a top-level key holding a scalar updates
\* the tree and the content of a patch at the root.
C17_EmptyPathIsRoot ==
    [][/\ (last'.op = "get_section" /\ last'.path = PathRoot)
          => (last'.err = "ok" /\ last'.ret = maps)
       /\ (/\ last'.op = "patch"
           /\ last'.branch = PyStr(PathRoot)
           /\ last'.args.patch_dict # None)
          => (last'.err = "ok" /\ maps' = MergeTree(maps, last'.args.patch_dict))
       /\ (/\ last'.op = "set_value"
           /\ last'.path = PathRoot
           /\ ~IsDict(last'.value)
           /\ last'.key \in DOMAIN maps.items
           /\ ~IsDict(maps.items[last'.key]))
          => /\ last'.err = "ok"
             /\ maps'.items[last'.key] = last'.value
             /\ \E i \in 1..Len(patch_list) :
                    /\ patch_list'[i].branch = <<>>
                    /\ Lookup(patch_list'[i].patch, <<last'.key>>) = last'.value]_vars

\* C18: set_value is all-or-nothing: a call that fails leaves the consolidated
\* tree and every patch (content and dirty flag) as they were, and after a
\* call that succeeds the owning patch and the tree hold the value given at the
\* key.
C18_SetValueAllOrNothing ==
    [][(last'.op = "set_value")
       => IF last'.err # "ok"
          THEN maps' = maps /\ patch_list' = patch_list
          ELSE LET leaf == <<Append(Split(last'.path), last'.key), last'.value>>
               IN  /\ Lookup(maps', leaf[1]) = last'.value
                   /\ Holds(patch_list'[Owner(patch_locations, last'.path)],
                            leaf)]_vars

PrefixMismatch == "YcError: YamlConfig.get_patch, branch prefix is not a prefix to path"

\* C19: the patch index is sorted by (path, patch number), every entry names a
\* registered patch whose branch is a textual prefix of the entry's path, the
\* entry the scan of set_value selects for a path names a patch whose branch
\* is a prefix of that path, and set_value never fails with the prefix
\* mismatch.
C19_IndexSortedAndOwned ==
    /\ \A i, j \in 1..Len(patch_locations) :
            i < j => ~TupleLess(patch_locations[j], patch_locations[i])
    /\ \A i \in 1..Len(patch_locations) :
            LET e == patch_locations[i]
            IN  /\ 0 <= e[2] /\ e[2] < Len(patch_list)
                /\ PairMatches(<<patch_list[e[2] + 1].branch, e[2]>>, e[1])
    /\ \A c \in SetValueCalls :
            patch_locations # <<>>
            => PairMatches(<<patch_list[Owner(patch_locations, c.path)].branch, 0>>,
                           c.path)
    /\ last.op = "set_value" => last.err # PrefixMismatch

\* C19 witness: a set_value that succeeded through an entry of the index other
\* than the first, of a patch loaded at a branch
C19_Witness ==
    /\ last.op = "set_value"
    /\ last.err = "ok"
    /\ ScanLoc(patch_locations, last.path) # 0
    /\ patch_list[Owner(patch_locations, last.path)].branch # <<>>

\* C20: no operation removes or reorders a registered patch or changes its
\* kind, origin or branch; a dirty flag once true stays true; save(),
\* get_section() and get_value() leave the tree, the patches and the index as
\* they are, so every save() attempts every changed file patch again.
C20_RegistryGrowsFlagsStay ==
    [][/\ Len(patch_list') >= Len(patch_list)
       /\ \A i \in 1..Len(patch_list) :
            /\ patch_list'[i].type = patch_list[i].type
            /\ patch_list'[i].file_name = patch_list[i].file_name
            /\ patch_list'[i].resource = patch_list[i].resource
            /\ patch_list'[i].package = patch_list[i].package
            /\ patch_list'[i].branch = patch_list[i].branch
            /\ patch_list[i].changed => patch_list'[i].changed
       /\ last'.op \in {"save", "get_section", "get_value"}
            => UNCHANGED <<maps, patch_list, patch_locations>>
       /\ last'.op = "save"
            => \A i \in 1..Len(patch_list) :
                  (patch_list[i].type = "file" /\ patch_list[i].changed)
                  => (last'.ret[i].changed /\ Attempted(last'.ret[i]))]_vars

\* C20 witness: a save() that wrote the sink file was followed by a save()
\* that attempted the changed file patch again
C20_Witness ==
    /\ last.op = "save"
    /\ last.file_name = None
    /\ <<"out.yaml">> \in DOMAIN files
    /\ \E i \in 1..Len(patch_list) :
            /\ patch_list[i].type = "file"
            /\ patch_list[i].changed
            /\ "error" \in DOMAIN last.ret[i]

====
